---- MODULE Spec2Model ----
(***************************************************************************)
(* A model of the p5-tsboilerplate toolkit: the Vector class, the canvas   *)
(* Renderer, the Grid layout helper and Helper.map.                        *)
(*                                                                         *)
(* Numbers are IEEE doubles in the source.  The model works on the         *)
(* fragment on which double arithmetic is exact: integer components,       *)
(* square roots of perfect squares, the angle 0, and quotients that are    *)
(* multiples of 1/2.  Every guard named Exact... states that fragment.     *)
(***************************************************************************)
EXTENDS Integers, Sequences, FiniteSets, TLC

VARIABLES
    heap,       \* Vector objects: object id -> [x, y, z]
    ret,        \* value returned by the last Vector call
    call,       \* the last Vector call: op, receiver, argument, heap before it
    steps,      \* number of Vector calls made so far
    copyOf,     \* history: the object each object was copied from (0: none)
    body,       \* window.document.body: element ids in tree order
    elements,   \* DOM canvas elements with their 2d context state
    renderers,  \* Renderer instances
    issued,     \* drawing-surface calls issued by the last Renderer call
    rcall,      \* the last Renderer call
    rsteps,     \* number of Renderer calls made so far
    grid,       \* the Grid instance (or NoGrid before construction)
    gcall,      \* the last Grid call
    margs,      \* arguments of the last Helper.map call
    mret        \* its return value

vecVars == <<heap, ret, call, steps, copyOf>>
renVars == <<body, elements, renderers, issued, rcall, rsteps>>
gridVars == <<grid, gcall>>
mapVars == <<margs, mret>>
vars == <<heap, ret, call, steps, copyOf, body, elements, renderers, issued, rcall,
          rsteps, grid, gcall, margs, mret>>

(***************************************************************************)
(* Bounds                                                                  *)
(***************************************************************************)
MaxCoord == 6
MaxObjects == 2
MaxSteps == 4
MaxScalar == 2

Coord == (0 - MaxCoord)..MaxCoord
Scalars == (0 - 1)..MaxScalar
Abs(n) == IF n < 0 THEN 0 - n ELSE n
Sign(n) == IF n > 0 THEN 1 ELSE IF n < 0 THEN 0 - 1 ELSE 0

(***************************************************************************)
(* Vector                                                                  *)
(***************************************************************************)
Vector(x, y, z) == [x |-> x, y |-> y, z |-> z]

\* Vectors the constructor is called with: the zero vector, axis vectors,
\* an anti-parallel pair, vectors off the xy-plane, and (3,0,4), (3,4,0)
\* whose magnitude is the integer 5.
InputVectors ==
    { Vector(0, 0, 0), Vector(1, 0, 0), Vector(0 - 1, 0, 0), Vector(0, 2, 0),
      Vector(0, 0, 2), Vector(3, 0, 4), Vector(3, 4, 0) }

\* The only angle whose cosine and sine are exact doubles at an exact heading.
Angles == {0}
Cos(a) == CASE a = 0 -> 1
Sin(a) == CASE a = 0 -> 0

InRange(v) == v.x \in Coord /\ v.y \in Coord /\ v.z \in Coord

add(this, vector) ==
    Vector(this.x + vector.x, this.y + vector.y, this.z + vector.z)

sub(this, vector) ==
    Vector(this.x - vector.x, this.y - vector.y, this.z - vector.z)

mult(this, scalar) ==
    Vector(this.x * scalar, this.y * scalar, this.z * scalar)

dot(this, vector) ==
    this.x * vector.x + this.y * vector.y + this.z * vector.z

cross(this, vector) ==
    Vector(this.y * vector.z - this.z * vector.y,
           this.z * vector.x - this.x * vector.z,
           this.x * vector.y - this.y * vector.x)

magnitudeSquared(this) == this.x * this.x + this.y * this.y + this.z * this.z

IsSquare(n) == \E r \in 0..n : r * r = n
Sqrt(n) == CHOOSE r \in 0..n : r * r = n

\* Math.sqrt is exact on perfect squares.
ExactMagnitude(this) == IsSquare(magnitudeSquared(this))
magnitude(this) == Sqrt(magnitudeSquared(this))

\* this.mult(1 / len) is exact when every component is 0, len or -len:
\* k * (1 / k) = 1 in doubles for every k < 49.
ExactNormalise(this) ==
    /\ ExactMagnitude(this)
    /\ \A c \in {this.x, this.y, this.z} : Abs(c) \in {0, magnitude(this)}

multReciprocal(this, len) ==
    Vector(this.x \div len, this.y \div len, this.z \div len)

normalise(this) ==
    LET len == magnitude(this)
    IN  IF len # 0 THEN multReciprocal(this, len) ELSE this

setMag(this, m) == mult(normalise(this), m)

\* Math.atan2(y, x) is exactly 0 for y = 0 and x >= 0.
ExactHeading(this) == this.y = 0 /\ this.x >= 0
heading(this) == CASE this.y = 0 /\ this.x >= 0 -> 0

setHeading(this, angle) ==
    LET m == magnitude(this)
    IN  [this EXCEPT !.x = m * Cos(angle), !.y = m * Sin(angle)]

rotate(this, angle) ==
    LET newHeading == heading(this) + angle
        mag == magnitude(this)
    IN  [this EXCEPT !.x = Cos(newHeading) * mag, !.y = Sin(newHeading) * mag]

\* A returned number.  kind "angle" stands for sgn * atan2(sqrt(usq), d), the
\* value angleBetween computes, kept symbolic; kind "NaN" for NaN.
NaN == [kind |-> "NaN", sgn |-> 0, usq |-> 0, d |-> 0]
Angle(sgn, usq, d) == [kind |-> "angle", sgn |-> sgn, usq |-> usq, d |-> d]

angleBetween_ReceiverGuardOnly(this, vector) ==
    LET u == cross(this, vector)
    IN  IF magnitudeSquared(this) = 0
        THEN NaN
        ELSE Angle(Sign(IF u.z # 0 THEN u.z ELSE 1),
                   magnitudeSquared(u), dot(this, vector))

angleBetween(this, vector) ==
    LET magSqMult == magnitudeSquared(this) * magnitudeSquared(vector)
        u == cross(this, vector)
    IN  IF magSqMult = 0
        THEN NaN
        ELSE Angle(Sign(IF u.z # 0 THEN u.z ELSE 1),
                   magnitudeSquared(u), dot(this, vector))

set(this, x, y, z) == [this EXCEPT !.x = x, !.y = y, !.z = z]

equals(this, vector) ==
    this.x = vector.x /\ this.y = vector.y /\ this.z = vector.z

\* Arithmetic on returned angles: unary minus and ===.
IsNaN(a) == a.kind = "NaN"
AngleIsZero(a) == a.kind = "angle" /\ a.usq = 0 /\ a.d > 0
Negate(a) == IF a.kind = "angle" THEN [a EXCEPT !.sgn = 0 - a.sgn] ELSE a
SameUnsigned(a, b) ==
    /\ Sign(a.d) = Sign(b.d)
    /\ a.usq * b.d * b.d = b.usq * a.d * a.d
    /\ (a.usq = 0) = (b.usq = 0)
StrictEq(a, b) ==
    /\ a.kind = "angle"
    /\ b.kind = "angle"
    /\ \/ AngleIsZero(a) /\ AngleIsZero(b)
       \/ /\ ~AngleIsZero(a)
          /\ ~AngleIsZero(b)
          /\ a.sgn = b.sgn
          /\ SameUnsigned(a, b)

(***************************************************************************)
(* Vector calls                                                            *)
(***************************************************************************)
NoRet == [kind |-> "void"]
RefRet(o) == [kind |-> "ref", ref |-> o]
BoolRet(b) == [kind |-> "bool", bool |-> b]
NoCall == [op |-> "none", self |-> 0, arg |-> 0, pre |-> <<>>]
Called(op, self, arg) == [op |-> op, self |-> self, arg |-> arg, pre |-> heap]

CanStep == steps < MaxSteps
\* The objects a further call can be made on.
Objects == IF CanStep THEN DOMAIN heap ELSE {}

\* A call that mutates the receiver in place and returns r.
Mutate(op, o, arg, new, r) ==
    /\ CanStep
    /\ InRange(new)
    /\ heap' = [heap EXCEPT ![o] = new]
    /\ ret' = r
    /\ call' = Called(op, o, arg)
    /\ steps' = steps + 1
    /\ UNCHANGED <<copyOf, renVars, gridVars, mapVars>>

\* A call that only returns r.
Query(op, o, arg, r) ==
    /\ CanStep
    /\ ret' = r
    /\ call' = Called(op, o, arg)
    /\ steps' = steps + 1
    /\ UNCHANGED <<heap, copyOf, renVars, gridVars, mapVars>>

VectorNew(v) ==
    /\ CanStep
    /\ Len(heap) < MaxObjects
    /\ heap' = Append(heap, v)
    /\ ret' = RefRet(Len(heap) + 1)
    /\ call' = Called("new", Len(heap) + 1, v)
    /\ steps' = steps + 1
    /\ copyOf' = Append(copyOf, 0)
    /\ UNCHANGED <<renVars, gridVars, mapVars>>

VectorAdd(o, p) == Mutate("add", o, p, add(heap[o], heap[p]), NoRet)
VectorSub(o, p) == Mutate("sub", o, p, sub(heap[o], heap[p]), NoRet)
VectorMult(o, s) == Mutate("mult", o, s, mult(heap[o], s), NoRet)

VectorNormalise(o) ==
    /\ ExactNormalise(heap[o])
    /\ Mutate("normalise", o, 0, normalise(heap[o]), RefRet(o))

VectorSetMag(o, m) ==
    /\ ExactNormalise(heap[o])
    /\ Mutate("setMag", o, m, setMag(heap[o], m), NoRet)

VectorSetHeading(o, a) ==
    /\ ExactMagnitude(heap[o])
    /\ Mutate("setHeading", o, a, setHeading(heap[o], a), NoRet)

VectorRotate(o, a) ==
    /\ ExactMagnitude(heap[o])
    /\ ExactHeading(heap[o])
    /\ Mutate("rotate", o, a, rotate(heap[o], a), NoRet)

VectorSet(o, v) == Mutate("set", o, v, set(heap[o], v.x, v.y, v.z), NoRet)

VectorAngleBetween(o, p) ==
    Query("angleBetween", o, p, angleBetween(heap[o], heap[p]))

VectorEquals(o, p) == Query("equals", o, p, BoolRet(equals(heap[o], heap[p])))

\* copy(): new Vector(this.x, this.y, this.z), a fresh object.
copy_ReturnsThis(o) ==
    /\ CanStep
    /\ heap' = heap
    /\ ret' = RefRet(o)
    /\ call' = Called("copy", o, 0)
    /\ steps' = steps + 1
    /\ copyOf' = copyOf
    /\ UNCHANGED <<renVars, gridVars, mapVars>>

VectorCopy(o) ==
    /\ CanStep
    /\ Len(heap) < MaxObjects
    /\ heap' = Append(heap, Vector(heap[o].x, heap[o].y, heap[o].z))
    /\ ret' = RefRet(Len(heap) + 1)
    /\ call' = Called("copy", o, 0)
    /\ steps' = steps + 1
    /\ copyOf' = Append(copyOf, o)
    /\ UNCHANGED <<renVars, gridVars, mapVars>>

NextVector ==
    \/ \E v \in InputVectors : VectorNew(v)
    \/ \E o \in Objects, p \in Objects : VectorAdd(o, p)
    \/ \E o \in Objects, p \in Objects : VectorSub(o, p)
    \/ \E o \in Objects, s \in Scalars : VectorMult(o, s)
    \/ \E o \in Objects : VectorNormalise(o)
    \/ \E o \in Objects, m \in Scalars : VectorSetMag(o, m)
    \/ \E o \in Objects, a \in Angles : VectorSetHeading(o, a)
    \/ \E o \in Objects, a \in Angles : VectorRotate(o, a)
    \/ \E o \in Objects, v \in InputVectors : VectorSet(o, v)
    \/ \E o \in Objects, p \in Objects : VectorAngleBetween(o, p)
    \/ \E o \in Objects, p \in Objects : VectorEquals(o, p)
    \/ \E o \in Objects : VectorCopy(o)

(***************************************************************************)
(* The drawing surface: DOM canvas elements and their 2d contexts.         *)
(* A context keeps fillStyle, strokeStyle, lineWidth and the current path; *)
(* the model records every fill, stroke, fillRect and strokeRect it is     *)
(* asked for, with the styles and the path in force at that moment.        *)
(***************************************************************************)
MaxRenderers == 2
MaxDraws == 4
MaxVertices == 2
MaxEdges == 3

Colors == {"red", "white"}
Transparent == "rgba(0, 0, 0, 0)"
DefaultStyle == "#000000"
Widths == {400}
Heights == {500}
Sizes == {10}
Radians == {"0", "4.2"}
Modes == {"", "OPEN"}
Points == {Vector(0, 0, 0), Vector(1, 2, 0), Vector(3, 1, 0)}
VertexLists == UNION {[1..n -> Points] : n \in 0..MaxVertices}

\* window.document.createElement("canvas") with id, width and height set.
createElement(width, height) ==
    [id |-> "canvas", width |-> width, height |-> height,
     fillStyle |-> DefaultStyle, strokeStyle |-> DefaultStyle, lineWidth |-> 1,
     path |-> <<>>]

\* window.document.getElementById: the first element in tree order.
getElementById(b, els, id) ==
    b[CHOOSE i \in 1..Len(b) :
        /\ els[b[i]].id = id
        /\ \A j \in 1..(i - 1) : els[b[j]].id # id]

beginPath(c) == [c EXCEPT !.path = <<>>]
moveTo(c, x, y) == [c EXCEPT !.path = Append(@, <<"moveTo", x, y>>)]
lineTo(c, x, y) == [c EXCEPT !.path = Append(@, <<"lineTo", x, y>>)]
closePath(c) == [c EXCEPT !.path = Append(@, <<"closePath">>)]
ctxArc(c, x, y, radius, start, stop) ==
    [c EXCEPT !.path = Append(@, <<"arc", x, y, radius, start, stop>>)]
ctxEllipse(c, x, y, rx, ry, rot, start, stop, ccw) ==
    [c EXCEPT !.path = Append(@, <<"ellipse", x, y, rx, ry, rot, start, stop, ccw>>)]

SurfaceCall(cmd, c, box) ==
    [cmd |-> cmd, fillStyle |-> c.fillStyle, strokeStyle |-> c.strokeStyle,
     lineWidth |-> c.lineWidth, path |-> c.path, box |-> box]
ctxFill(c) == SurfaceCall("fill", c, <<>>)
ctxStroke(c) == SurfaceCall("stroke", c, <<>>)
fillRect(c, x, y, w, h) == SurfaceCall("fillRect", c, <<x, y, w, h>>)
strokeRect(c, x, y, w, h) == SurfaceCall("strokeRect", c, <<x, y, w, h>>)

(***************************************************************************)
(* Renderer                                                                *)
(***************************************************************************)
\* new Renderer(width, height).  created, width, height and lastFill are
\* history fields: the element this constructor created, its arguments, and
\* the colour given by the latest fill()/noFill() on this instance.
RendererNew(width, height) ==
    LET e == Len(elements) + 1
        els == Append(elements, createElement(width, height))
        b == Append(body, e)
    IN  /\ rsteps < MaxDraws
        /\ Len(renderers) < MaxRenderers
        /\ elements' = els
        /\ body' = b
        /\ renderers' = Append(renderers,
               [canvas |-> getElementById(b, els, "canvas"), created |-> e,
                width |-> width, height |-> height, lastFill |-> DefaultStyle])
        /\ issued' = <<>>
        /\ rcall' = [op |-> "new", r |-> Len(renderers) + 1, args |-> <<width, height>>]
        /\ rsteps' = rsteps + 1
        /\ UNCHANGED <<vecVars, gridVars, mapVars>>

\* The instances a further call can be made on.
Renderers == IF rsteps < MaxDraws THEN DOMAIN renderers ELSE {}
Ctx(r) == elements[renderers[r].canvas]

\* A Renderer method: the context it leaves and the surface calls it issued.
Draw(op, r, args, c, calls) ==
    /\ rsteps < MaxDraws
    /\ elements' = [elements EXCEPT ![renderers[r].canvas] = c]
    /\ issued' = calls
    /\ rcall' = [op |-> op, r |-> r, args |-> args]
    /\ renderers' = [renderers EXCEPT ![r].lastFill =
           IF op = "fill" THEN args[1] ELSE IF op = "noFill" THEN Transparent ELSE @]
    /\ rsteps' = rsteps + 1
    /\ UNCHANGED <<body, vecVars, gridVars, mapVars>>

background(r, color) ==
    LET c1 == [Ctx(r) EXCEPT !.fillStyle = color]
    IN  Draw("background", r, <<color>>, c1,
             <<fillRect(c1, 0, 0, c1.width, c1.height)>>)

fill(r, color) ==
    Draw("fill", r, <<color>>, [Ctx(r) EXCEPT !.fillStyle = color], <<>>)

noFill(r) ==
    Draw("noFill", r, <<>>, [Ctx(r) EXCEPT !.fillStyle = Transparent], <<>>)

stroke(r, color) ==
    Draw("stroke", r, <<color>>, [Ctx(r) EXCEPT !.strokeStyle = color], <<>>)

\* this.renderer.lineWidth = 0: whether the surface takes a zero line width or
\* ignores the assignment depends on the backend; both outcomes are modelled.
noStroke(r) ==
    \E lw \in {0, Ctx(r).lineWidth} :
        Draw("noStroke", r, <<>>, [Ctx(r) EXCEPT !.lineWidth = lw], <<>>)

point(r, vector) ==
    LET c1 == ctxArc(beginPath(Ctx(r)), vector.x, vector.y, 1, "0", "2 * Math.PI")
    IN  Draw("point", r, <<vector>>, closePath(c1), <<ctxFill(c1)>>)

line(r, start, end) ==
    LET c1 == beginPath(Ctx(r))
        c2 == moveTo(c1, start.x, end.y)
        c3 == lineTo(c2, end.x, end.y)
    IN  Draw("line", r, <<start, end>>, closePath(c3), <<ctxStroke(c3)>>)

triangle(r, v1, v2, v3) ==
    LET c1 == beginPath(Ctx(r))
        c2 == moveTo(c1, v1.x, v1.y)
        c3 == lineTo(c2, v2.x, v2.y)
        c4 == lineTo(c3, v3.x, v3.y)
    IN  Draw("triangle", r, <<v1, v2, v3>>, closePath(c4),
             <<ctxFill(c4), ctxStroke(c4)>>)

rect(r, vector, width, height) ==
    LET c == Ctx(r)
    IN  Draw("rect", r, <<vector, width, height>>, c,
             <<fillRect(c, vector.x, vector.y, width, height),
               strokeRect(c, vector.x, vector.y, width, height)>>)

\* width / 2 and height / 2 are exact: Sizes holds even numbers.
ellipse(r, vector, width, height) ==
    LET c1 == ctxEllipse(beginPath(Ctx(r)), vector.x, vector.y,
                         width \div 2, height \div 2, 0, "0", "2 * Math.PI", FALSE)
    IN  Draw("ellipse", r, <<vector, width, height>>, closePath(c1),
             <<ctxFill(c1), ctxStroke(c1)>>)

arc(r, vector, w, h, start, stop, mode) ==
    LET c1 == ctxEllipse(beginPath(Ctx(r)), vector.x, vector.y,
                         w \div 2, h \div 2, 0, start, stop, mode = "OPEN")
    IN  Draw("arc", r, <<vector, w, h, start, stop, mode>>, closePath(c1),
             <<ctxFill(c1), ctxStroke(c1)>>)

\* The i-th vertex, kept symbolic:
\* (cos((TWO_PI / edges) * i) * scalar, sin((TWO_PI / edges) * i) * scalar).
RECURSIVE regularLoop(_, _, _, _)
regularLoop(c, i, edges, scalar) ==
    IF i < edges
    THEN regularLoop(lineTo(c, <<"cos", i, edges, scalar>>, <<"sin", i, edges, scalar>>),
                     i + 1, edges, scalar)
    ELSE c

regularPolygon(r, edges, scalar) ==
    LET c1 == beginPath(Ctx(r))
        c2 == moveTo(c1, 0, 0)
        c3 == regularLoop(c2, 1, edges, scalar)
    IN  Draw("regularPolygon", r, <<edges, scalar>>, closePath(c3),
             <<ctxFill(c3), ctxStroke(c3)>>)

RECURSIVE irregularLoop(_, _, _)
irregularLoop(c, i, vertices) ==
    IF i < Len(vertices)
    THEN irregularLoop(lineTo(c, vertices[i + 1].x, vertices[i + 1].y), i + 1, vertices)
    ELSE c

\* vertices[0].x on an empty array throws after beginPath() has run.
irregularPolygon(r, vertices) ==
    LET c1 == beginPath(Ctx(r))
    IN  IF vertices = <<>>
        THEN Draw("irregularPolygon", r, <<vertices>>, c1, <<>>)
        ELSE LET c2 == moveTo(c1, vertices[1].x, vertices[1].y)
                 c3 == irregularLoop(c2, 0, vertices)
             IN  Draw("irregularPolygon", r, <<vertices>>, closePath(c3),
                      <<ctxFill(c3), ctxStroke(c3)>>)

NextRenderer ==
    \/ \E w \in Widths, h \in Heights : RendererNew(w, h)
    \/ \E r \in Renderers, color \in Colors : background(r, color)
    \/ \E r \in Renderers, color \in Colors : fill(r, color)
    \/ \E r \in Renderers : noFill(r)
    \/ \E r \in Renderers, color \in Colors : stroke(r, color)
    \/ \E r \in Renderers : noStroke(r)
    \/ \E r \in Renderers, v \in Points : point(r, v)
    \/ \E r \in Renderers, s \in Points, e \in Points : line(r, s, e)
    \/ \E r \in Renderers, v1 \in Points, v2 \in Points, v3 \in Points :
           triangle(r, v1, v2, v3)
    \/ \E r \in Renderers, v \in Points, w \in Sizes, h \in Sizes : rect(r, v, w, h)
    \/ \E r \in Renderers, v \in Points, w \in Sizes, h \in Sizes : ellipse(r, v, w, h)
    \/ \E r \in Renderers, v \in Points, w \in Sizes, h \in Sizes,
          a \in Radians, b \in Radians, m \in Modes : arc(r, v, w, h, a, b, m)
    \/ \E r \in Renderers, edges \in 1..MaxEdges, s \in Sizes :
           regularPolygon(r, edges, s)
    \/ \E r \in Renderers, vs \in VertexLists : irregularPolygon(r, vs)

(***************************************************************************)
(* Grid                                                                    *)
(***************************************************************************)
MaxRows == 2
MaxCols == 2
MaxBorder == 1
MaxCell == 2
MaxGridLen == 8

Grid(rows, cols, border, cell) ==
    [rows |-> rows, cols |-> cols, border |-> border, cell |-> cell,
     grid |-> <<>>, built |-> TRUE]

GridNew(rows, cols, border, cell) ==
    /\ grid' = Grid(rows, cols, border, cell)
    /\ gcall' = [op |-> "new", pre |-> <<>>]
    /\ UNCHANGED <<vecVars, renVars, mapVars>>

\* for (i < rows) for (j < cols) push(new Vector(i * cell + border, j * cell + border))
RECURSIVE verticalLoop(_, _, _, _)
verticalLoop(g, i, j, acc) ==
    IF i >= g.rows THEN acc
    ELSE IF j >= g.cols THEN verticalLoop(g, i + 1, 0, acc)
    ELSE verticalLoop(g, i, j + 1,
             Append(acc, Vector(i * g.cell + g.border, j * g.cell + g.border, 0)))

\* for (i < cols) for (j < rows) push(new Vector(j * cell + border, i * cell + border))
RECURSIVE horizontalLoop(_, _, _, _)
horizontalLoop(g, i, j, acc) ==
    IF i >= g.cols THEN acc
    ELSE IF j >= g.rows THEN horizontalLoop(g, i + 1, 0, acc)
    ELSE horizontalLoop(g, i, j + 1,
             Append(acc, Vector(j * g.cell + g.border, i * g.cell + g.border, 0)))

verticalGrid ==
    /\ grid.built
    /\ Len(grid.grid) + grid.rows * grid.cols <= MaxGridLen
    /\ grid' = [grid EXCEPT !.grid = verticalLoop(grid, 0, 0, grid.grid)]
    /\ gcall' = [op |-> "verticalGrid", pre |-> grid.grid]
    /\ UNCHANGED <<vecVars, renVars, mapVars>>

horizontalGrid ==
    /\ grid.built
    /\ Len(grid.grid) + grid.rows * grid.cols <= MaxGridLen
    /\ grid' = [grid EXCEPT !.grid = horizontalLoop(grid, 0, 0, grid.grid)]
    /\ gcall' = [op |-> "horizontalGrid", pre |-> grid.grid]
    /\ UNCHANGED <<vecVars, renVars, mapVars>>

NextGrid ==
    \/ \E rows \in 0..MaxRows, cols \in 0..MaxCols, border \in 0..MaxBorder,
          cell \in 1..MaxCell : GridNew(rows, cols, border, cell)
    \/ verticalGrid
    \/ horizontalGrid

(***************************************************************************)
(* Helper.map.  Its value is kept as a fraction num/den in lowest terms    *)
(* with den > 0.                                                           *)
(***************************************************************************)
MaxMapK == 3

RECURSIVE GCD(_, _)
GCD(a, b) == IF b = 0 THEN a ELSE GCD(b, a % b)

Frac(num, den) ==
    LET g == GCD(Abs(num), Abs(den))
        s == IF den < 0 THEN 0 - 1 ELSE 1
    IN  [num |-> (s * num) \div g, den |-> (s * den) \div g]
Num(k) == [num |-> k, den |-> 1]
Times(q, k) == Frac(q.num * k, q.den)
Plus(q, k) == Frac(q.num + k * q.den, q.den)
Less(p, q) == p.num * q.den < q.num * p.den
MathMin(p, q) == IF Less(q, p) THEN q ELSE p
MathMax(p, q) == IF Less(p, q) THEN q ELSE p

MapN == {5 * k : k \in (0 - 1)..MaxMapK}
MapRange1 == {0, 5, 10}
MapRange2 == {0 - 100, 0, 100}

\* (n - start1) / (stop1 - start1) is an exact double when it is a multiple
\* of 1/2; the products and sums that follow are then exact too.
ExactQuotient(n, start1, stop1) ==
    /\ stop1 # start1
    /\ (2 * (n - start1)) % Abs(stop1 - start1) = 0

map_ClampAssumesAscending(n, start1, stop1, start2, stop2, withinBounds) ==
    LET newVal == Plus(Times(Frac(n - start1, stop1 - start1), stop2 - start2), start2)
    IN  IF ~withinBounds
        THEN newVal
        ELSE MathMax(MathMin(newVal, Num(stop2)), Num(start2))

map(n, start1, stop1, start2, stop2, withinBounds) ==
    LET newVal == Plus(Times(Frac(n - start1, stop1 - start1), stop2 - start2), start2)
    IN  IF ~withinBounds
        THEN newVal
        ELSE IF start2 < stop2
             THEN MathMax(MathMin(newVal, Num(stop2)), Num(start2))
             ELSE MathMax(MathMin(newVal, Num(start2)), Num(stop2))

CallMap(n, start1, stop1, start2, stop2, withinBounds) ==
    /\ ExactQuotient(n, start1, stop1)
    /\ margs' = <<n, start1, stop1, start2, stop2, withinBounds>>
    /\ mret' = map(n, start1, stop1, start2, stop2, withinBounds)
    /\ UNCHANGED <<vecVars, renVars, gridVars>>

NextMap ==
    \E n \in MapN, start1 \in MapRange1, stop1 \in MapRange1,
       start2 \in MapRange2, stop2 \in MapRange2, withinBounds \in BOOLEAN :
        CallMap(n, start1, stop1, start2, stop2, withinBounds)

(***************************************************************************)
(* Initial state: nothing constructed yet.                                 *)
(***************************************************************************)
NoGrid == [rows |-> 0, cols |-> 0, border |-> 0, cell |-> 0, grid |-> <<>>,
           built |-> FALSE]

Init ==
    /\ heap = <<>>
    /\ ret = NoRet
    /\ call = NoCall
    /\ steps = 0
    /\ copyOf = <<>>
    /\ body = <<>>
    /\ elements = <<>>
    /\ renderers = <<>>
    /\ issued = <<>>
    /\ rcall = [op |-> "none"]
    /\ rsteps = 0
    /\ grid = NoGrid
    /\ gcall = [op |-> "none"]
    /\ margs = <<>>
    /\ mret = <<>>

SpecVector == Init /\ [][NextVector]_vars
SpecRenderer == Init /\ [][NextRenderer]_vars
SpecGrid == Init /\ [][NextGrid]_vars
SpecMap == Init /\ [][NextMap]_vars
(***************************************************************************)
(* Claims                                                                  *)
(***************************************************************************)
ShapeOps == {"point", "triangle", "rect", "ellipse", "arc", "regularPolygon",
             "irregularPolygon"}
Mutators == {"add", "sub", "mult", "normalise", "setMag", "setHeading",
             "rotate", "set"}
IssuedIdx == DOMAIN issued

\* C1: in a document with a single Renderer, every fill a shape-drawing call
\* issues uses the colour given by the latest fill(color)/noFill() on that
\* Renderer (the surface default before the first one); no other call, such
\* as background, changes the fill register.
C1_FillSetOnlyByFill ==
    (Len(renderers) = 1 /\ rcall.op \in ShapeOps) =>
        \A k \in IssuedIdx :
            issued[k].cmd \in {"fill", "fillRect"} =>
                issued[k].fillStyle = renderers[rcall.r].lastFill

\* C2: line(start, end) strokes the path moveTo(start.x, start.y),
\* lineTo(end.x, end.y).
C2_LineJoinsStartToEnd ==
    rcall.op = "line" =>
        /\ Len(issued) = 1
        /\ issued[1].cmd = "stroke"
        /\ issued[1].path = << <<"moveTo", rcall.args[1].x, rcall.args[1].y>>,
                               <<"lineTo", rcall.args[2].x, rcall.args[2].y>> >>

\* C3: every Renderer targets the canvas element its own constructor created,
\* with the constructor's width and height, and no two Renderers share one.
C3_OwnCanvas ==
    /\ \A r \in DOMAIN renderers :
        /\ renderers[r].canvas = renderers[r].created
        /\ elements[renderers[r].canvas].width = renderers[r].width
        /\ elements[renderers[r].canvas].height = renderers[r].height
    /\ \A r1 \in DOMAIN renderers, r2 \in DOMAIN renderers :
        r1 # r2 => renderers[r1].canvas # renderers[r2].canvas

\* The path holds the edge from its last vertex back to its first one.
PathClosed(path) ==
    /\ path # <<>>
    /\ \/ path[Len(path)][1] = "closePath"
       \/ /\ path[Len(path)][2] = path[1][2]
          /\ path[Len(path)][3] = path[1][3]

\* C4: when triangle or irregularPolygon (non-empty vertices) issues stroke,
\* the current path is already closed.
C4_ClosedWhenStroked ==
    (rcall.op \in {"triangle", "irregularPolygon"}) =>
        \A k \in IssuedIdx :
            issued[k].cmd = "stroke" => PathClosed(issued[k].path)

\* C5: setHeading(a) and rotate(a) leave the squared magnitude x^2+y^2+z^2 of
\* the receiver unchanged, also when z # 0.
C5_HeadingKeepsMagnitude ==
    (call.op \in {"setHeading", "rotate"}) =>
        magnitudeSquared(heap[call.self]) = magnitudeSquared(call.pre[call.self])

\* C6: v1.angleBetween(v2) === -v2.angleBetween(v1) for v1, v2 of nonzero
\* magnitude.
C6_AngleBetweenAntisymmetric ==
    (/\ call.op = "angleBetween"
     /\ magnitudeSquared(heap[call.self]) # 0
     /\ magnitudeSquared(heap[call.arg]) # 0) =>
        StrictEq(ret, Negate(angleBetween(heap[call.arg], heap[call.self])))

\* C7: copy() returns a new object whose components equal the receiver's and
\* changes no existing object; a mutating call changes no object but its
\* receiver, so mutating a copy leaves the original unchanged and vice versa.
C7_CopyIndependent ==
    /\ call.op = "copy" =>
        /\ ret.kind = "ref"
        /\ ret.ref \in DOMAIN heap
        /\ ret.ref \notin DOMAIN call.pre
        /\ equals(heap[ret.ref], heap[call.self])
        /\ \A p \in DOMAIN call.pre : heap[p] = call.pre[p]
    /\ call.op \in Mutators =>
        \A p \in DOMAIN heap : p # call.self => heap[p] = call.pre[p]

\* A copy was mutated (its components changed) while the object it was
\* copied from still holds the components the copy had before the call.
C7_Witness ==
    /\ call.op \in Mutators
    /\ copyOf[call.self] # 0
    /\ heap[call.self] # call.pre[call.self]
    /\ heap[copyOf[call.self]] = call.pre[call.self]

\* The reduced fraction mret equals the linear remap
\* (n - start1) / (stop1 - start1) * (stop2 - start2) + start2.
IsLinearRemap(q, n, start1, stop1, start2, stop2) ==
    q.num * (stop1 - start1) =
        q.den * ((n - start1) * (stop2 - start2) + start2 * (stop1 - start1))

\* Sign of (linear remap - k), for an integer k.
RemapVersus(k, n, start1, stop1, start2, stop2) ==
    Sign(stop1 - start1) *
        Sign((n - start1) * (stop2 - start2) + (start2 - k) * (stop1 - start1))

\* C8: map returns the linear remap when withinBounds is false, and the remap
\* clamped to [min(start2, stop2), max(start2, stop2)] when it is true.
C8_MapRemapsAndClamps ==
    margs # <<>> =>
        LET n == margs[1]
            start1 == margs[2]
            stop1 == margs[3]
            start2 == margs[4]
            stop2 == margs[5]
            lo == IF start2 < stop2 THEN start2 ELSE stop2
            hi == IF start2 < stop2 THEN stop2 ELSE start2
            below == RemapVersus(lo, n, start1, stop1, start2, stop2) < 0
            above == RemapVersus(hi, n, start1, stop1, start2, stop2) > 0
        IN  /\ mret.den > 0
            /\ (~margs[6] \/ (~below /\ ~above)) =>
                   IsLinearRemap(mret, n, start1, stop1, start2, stop2)
            /\ (margs[6] /\ below) => mret = Num(lo)
            /\ (margs[6] /\ above) => mret = Num(hi)
            /\ margs = <<5, 0, 10, 0, 100, TRUE>> => mret = Num(50)
            /\ margs = <<15, 0, 10, 0, 100, TRUE>> => mret = Num(100)
            /\ margs = <<15, 0, 10, 0, 100, FALSE>> => mret = Num(150)

\* map(15, 0, 10, 100, 0, true): a descending target range, clamped.
C8_Witness ==
    /\ margs = <<15, 0, 10, 100, 0, TRUE>>
    /\ mret = Num(0)

C10_HorizontalGridCells ==
    (gcall.op = "horizontalGrid" /\ gcall.pre = <<>>) =>
        /\ Len(grid.grid) = grid.rows * grid.cols
        /\ {grid.grid[k] : k \in DOMAIN grid.grid} =
               {Vector(c * grid.cell + grid.border, r * grid.cell + grid.border, 0) :
                    r \in 0..(grid.rows - 1), c \in 0..(grid.cols - 1)}
====
